---- MODULE Spec2Model ----
(***************************************************************************)
(* Model of scripts/update_fpl_data.py (FPLDataUpdater): the snapshot      *)
(* differ detect_changes and the state it is applied to.                   *)
(*                                                                         *)
(* A snapshot is a sequence of rows, one per player, in DataFrame order.   *)
(* A row carries the attributes the differ compares: id, now_cost (price   *)
(* in minor units), total_points and form.  The attributes the differ only *)
(* copies into a record (web_name, position, team_name, points_per_game,   *)
(* selected_by_percent) take part in no comparison and are left out.       *)
(*                                                                         *)
(* Python floats are IEEE 754 binary64.  Every float the differ handles is *)
(* double(n/10) or a difference of two of them; such a value is kept as    *)
(* the pair [t, e] standing for (t + e / 2^UlpShift) / 10, where e is the  *)
(* rounding error of the conversion, so that comparisons are the ones the  *)
(* interpreter makes and not the ones of decimal arithmetic.               *)
(***************************************************************************)
EXTENDS Integers, Sequences, FiniteSets, TLC

\* ----------------------------------------------------------------- bounds
MaxLen == 2         \* rows in the fetched snapshot
MaxPrev == 1        \* rows in the previously persisted snapshot

\* ------------------------------------------------------------ input domains
NaN == -1                      \* a missing / null float (pd.notna is false)
Ids == {1, 2}
NowCosts == {50, 55}
TotalPoints == {10, 12}
Forms == {NaN, 3, 4}           \* tenths: null, 0.3, 0.4
Gameweeks == {7}

Runs == {1, 2}                 \* the runs of one behaviour, in start order

\* the arguments of detect_changes, the wall clock and what the calls returned
VARIABLES new_data, current_data, gameweek, now, returned

\* the tables of the backend, and the state of each run of run_update
VARIABLES players_current, player_history, price_changes, data_updates, run

tables == <<players_current, player_history, price_changes, data_updates>>

\* the environment of the process, and the updater object __main__ constructs
VARIABLES environ, updater

vars == <<new_data, current_data, gameweek, now, returned, tables, run, environ, updater>>

\* ------------------------------------------------------- binary64 arithmetic
MANT_BITS == 52

RECURSIVE BinExp(_)
\* floor(log2(d/10)) for a positive number of tenths d
BinExp(d) ==
    IF d >= 20 THEN BinExp(d \div 2) + 1
    ELSE IF d < 10 THEN BinExp(2 * d) - 1
    ELSE 0

RECURSIVE Pow2(_)
Pow2(k) == IF k = 0 THEN 1 ELSE 2 * Pow2(k - 1)

\* 2^k mod 10: 1 for k = 0, then the cycle 2, 4, 8, 6
Pow2Mod10(k) == IF k = 0 THEN 1 ELSE <<6, 2, 4, 8>>[(k % 4) + 1]

\* errors are counted in units of 2^-UlpShift tenths, the ulp of double(0.1)
UlpShift == MANT_BITS - BinExp(1)

\* (10 * double(d/10) - d) * 2^UlpShift for d >= 0: round-to-nearest of d/10
\* to a 53-bit significand m * 2^-q leaves the remainder r of d * 2^q by 10
RoundErr(d) ==
    IF d = 0 THEN 0
    ELSE LET q == MANT_BITS - BinExp(d)
             r == ((d % 10) * Pow2Mod10(q)) % 10
             u == IF r < 5 THEN 0 - r ELSE 10 - r
         IN  u * Pow2(UlpShift - q)

Abs(n) == IF n < 0 THEN 0 - n ELSE n

\* n / 10 on integers (true division) and float("d.d")
Div10(n) == [t |-> n, e |-> IF n < 0 THEN 0 - RoundErr(0 - n) ELSE RoundErr(n)]

\* x - y.  The difference of the two doubles is exact when |t| <= 1
\* (Sterbenz); beyond that the rounding moves it by less than an ulp.
FloatSub(x, y) == [t |-> x.t - y.t, e |-> x.e - y.e]

FloatNeg(x) == [t |-> 0 - x.t, e |-> 0 - x.e]

FloatLT(x, y) == x.t < y.t \/ (x.t = y.t /\ x.e < y.e)

FloatAbs(x) == IF FloatLT(x, Div10(0)) THEN FloatNeg(x) ELSE x

\* float(v) if pd.notna(v) else 0.0
FloatOrZero(v) == IF v # NaN THEN Div10(v) ELSE Div10(0)

\* the literal 0.1 of the form threshold
FORM_THRESHOLD == Div10(1)

\* ------------------------------------------------------------ detect_changes
\* current_data[current_data['id'] == player_id]
CurrentPlayer(current_data_, player_id) ==
    SelectSeq(current_data_, LAMBDA r : r.id = player_id)

NewPlayerRecord(new_player, gameweek_, now_) ==
    [player_id     |-> new_player.id,
     gameweek      |-> gameweek_,
     change_type   |-> "new_player",
     now_cost      |-> new_player.now_cost,
     total_points  |-> new_player.total_points,
     form          |-> FloatOrZero(new_player.form),
     recorded_at   |-> now_]

PriceHistoryRecord(new_player, gameweek_, now_) ==
    [player_id     |-> new_player.id,
     gameweek      |-> gameweek_,
     change_type   |-> "price_change",
     now_cost      |-> new_player.now_cost,
     recorded_at   |-> now_]

PointsRecord(new_player, gameweek_, now_) ==
    [player_id     |-> new_player.id,
     gameweek      |-> gameweek_,
     change_type   |-> "points_update",
     total_points  |-> new_player.total_points,
     recorded_at   |-> now_]

FormRecord(new_player, gameweek_, now_) ==
    [player_id     |-> new_player.id,
     gameweek      |-> gameweek_,
     change_type   |-> "form_change",
     form          |-> FloatOrZero(new_player.form),
     recorded_at   |-> now_]

\* mutant: the delta taken as old - new
PriceChangeRecord_OldMinusNew(new_player, current, gameweek_, now_) ==
    [player_id     |-> new_player.id,
     old_price     |-> Div10(current.now_cost),
     new_price     |-> Div10(new_player.now_cost),
     price_change  |-> Div10(current.now_cost - new_player.now_cost),
     gameweek      |-> gameweek_,
     change_date   |-> now_]

PriceChangeRecord(new_player, current, gameweek_, now_) ==
    [player_id     |-> new_player.id,
     old_price     |-> Div10(current.now_cost),
     new_price     |-> Div10(new_player.now_cost),
     price_change  |-> Div10(new_player.now_cost - current.now_cost),
     gameweek      |-> gameweek_,
     change_date   |-> now_]

\* mutant: the persisted price read as if it were in major units
PriceDiffers_MajorUnits(current, new_player) ==
    current.now_cost \div 10 # new_player.now_cost

\* old_price != new_price
PriceDiffers(current, new_player) == current.now_cost # new_player.now_cost

\* current['total_points'] != int(new_player['total_points'])
PointsDiffer(current, new_player) == current.total_points # new_player.total_points

\* abs(old_form - new_form) > 0.1
FormDiffers(current, new_player) ==
    LET old_form == FloatOrZero(current.form)
        new_form == FloatOrZero(new_player.form)
    IN  FloatLT(FORM_THRESHOLD, FloatAbs(FloatSub(old_form, new_form)))

\* mutant: a new player is skipped without a record
RowChanges_SkipNew(new_player, current_data_, gameweek_, now_) ==
    LET current_player == CurrentPlayer(current_data_, new_player.id)
    IN  IF current_player = <<>>
        THEN <<>>
        ELSE LET current == Head(current_player)
             IN  (IF PriceDiffers(current, new_player)
                  THEN <<PriceHistoryRecord(new_player, gameweek_, now_)>> ELSE <<>>)
              \o (IF PointsDiffer(current, new_player)
                  THEN <<PointsRecord(new_player, gameweek_, now_)>> ELSE <<>>)
              \o (IF FormDiffers(current, new_player)
                  THEN <<FormRecord(new_player, gameweek_, now_)>> ELSE <<>>)

\* mutant: the points check is an elif of the price check
RowChanges_Elif(new_player, current_data_, gameweek_, now_) ==
    LET current_player == CurrentPlayer(current_data_, new_player.id)
    IN  IF current_player = <<>>
        THEN <<NewPlayerRecord(new_player, gameweek_, now_)>>
        ELSE LET current == Head(current_player)
             IN  (IF PriceDiffers(current, new_player)
                  THEN <<PriceHistoryRecord(new_player, gameweek_, now_)>>
                  ELSE IF PointsDiffer(current, new_player)
                       THEN <<PointsRecord(new_player, gameweek_, now_)>> ELSE <<>>)
              \o (IF FormDiffers(current, new_player)
                  THEN <<FormRecord(new_player, gameweek_, now_)>> ELSE <<>>)

\* mutant: the points check runs before the price check
RowChanges_PointsFirst(new_player, current_data_, gameweek_, now_) ==
    LET current_player == CurrentPlayer(current_data_, new_player.id)
    IN  IF current_player = <<>>
        THEN <<NewPlayerRecord(new_player, gameweek_, now_)>>
        ELSE LET current == Head(current_player)
             IN  (IF PointsDiffer(current, new_player)
                  THEN <<PointsRecord(new_player, gameweek_, now_)>> ELSE <<>>)
              \o (IF PriceDiffers(current, new_player)
                  THEN <<PriceHistoryRecord(new_player, gameweek_, now_)>> ELSE <<>>)
              \o (IF FormDiffers(current, new_player)
                  THEN <<FormRecord(new_player, gameweek_, now_)>> ELSE <<>>)

\* mutant: the price branch appends its history record twice
RowChanges_DoubleAppend(new_player, current_data_, gameweek_, now_) ==
    LET current_player == CurrentPlayer(current_data_, new_player.id)
    IN  IF current_player = <<>>
        THEN <<NewPlayerRecord(new_player, gameweek_, now_)>>
        ELSE LET current == Head(current_player)
             IN  (IF PriceDiffers(current, new_player)
                  THEN <<PriceHistoryRecord(new_player, gameweek_, now_),
                         PriceHistoryRecord(new_player, gameweek_, now_)>> ELSE <<>>)
              \o (IF PointsDiffer(current, new_player)
                  THEN <<PointsRecord(new_player, gameweek_, now_)>> ELSE <<>>)
              \o (IF FormDiffers(current, new_player)
                  THEN <<FormRecord(new_player, gameweek_, now_)>> ELSE <<>>)

\* the records one iteration of the loop appends to changes
RowChanges(new_player, current_data_, gameweek_, now_) ==
    LET current_player == CurrentPlayer(current_data_, new_player.id)
    IN  IF current_player = <<>>
        THEN <<NewPlayerRecord(new_player, gameweek_, now_)>>
        ELSE LET current == Head(current_player)
             IN  (IF PriceDiffers(current, new_player)
                  THEN <<PriceHistoryRecord(new_player, gameweek_, now_)>> ELSE <<>>)
              \o (IF PointsDiffer(current, new_player)
                  THEN <<PointsRecord(new_player, gameweek_, now_)>> ELSE <<>>)
              \o (IF FormDiffers(current, new_player)
                  THEN <<FormRecord(new_player, gameweek_, now_)>> ELSE <<>>)

\* the records one iteration of the loop appends to price_changes
RowPriceChanges(new_player, current_data_, gameweek_, now_) ==
    LET current_player == CurrentPlayer(current_data_, new_player.id)
    IN  IF current_player = <<>>
        THEN <<>>
        ELSE LET current == Head(current_player)
             IN  IF PriceDiffers(current, new_player)
                 THEN <<PriceChangeRecord(new_player, current, gameweek_, now_)>>
                 ELSE <<>>

RECURSIVE LoopChanges(_, _, _, _)
LoopChanges(rows, current_data_, gameweek_, now_) ==
    IF rows = <<>> THEN <<>>
    ELSE RowChanges(Head(rows), current_data_, gameweek_, now_)
         \o LoopChanges(Tail(rows), current_data_, gameweek_, now_)

RECURSIVE LoopPriceChanges(_, _, _, _)
LoopPriceChanges(rows, current_data_, gameweek_, now_) ==
    IF rows = <<>> THEN <<>>
    ELSE RowPriceChanges(Head(rows), current_data_, gameweek_, now_)
         \o LoopPriceChanges(Tail(rows), current_data_, gameweek_, now_)

\* mutant: no early return on an empty previous snapshot
detect_changes_NoEmptyCheck(new_data_, current_data_, gameweek_, now_) ==
    [changes       |-> LoopChanges(new_data_, current_data_, gameweek_, now_),
     price_changes |-> LoopPriceChanges(new_data_, current_data_, gameweek_, now_)]

\* mutant: the lists are kept on the object and never reset between calls
detect_changes_Accumulating(new_data_, current_data_, gameweek_, now_) ==
    LET kept == IF returned = <<>>
                THEN [changes |-> <<>>, price_changes |-> <<>>]
                ELSE returned[Len(returned)]
    IN  IF current_data_ = <<>>
        THEN [changes |-> <<>>, price_changes |-> <<>>]
        ELSE [changes       |-> kept.changes
                                \o LoopChanges(new_data_, current_data_, gameweek_, now_),
              price_changes |-> kept.price_changes
                                \o LoopPriceChanges(new_data_, current_data_, gameweek_, now_)]

\* mutant: the loop runs over the previous snapshot, looking up the new one
detect_changes_Swapped(new_data_, current_data_, gameweek_, now_) ==
    IF current_data_ = <<>>
    THEN [changes |-> <<>>, price_changes |-> <<>>]
    ELSE [changes       |-> LoopChanges(current_data_, new_data_, gameweek_, now_),
          price_changes |-> LoopPriceChanges(current_data_, new_data_, gameweek_, now_)]

\* detect_changes(new_data, current_data, gameweek): the pair it returns.
\* now_ is the reading of datetime.now() during the call.
detect_changes(new_data_, current_data_, gameweek_, now_) ==
    IF current_data_ = <<>>
    THEN [changes |-> <<>>, price_changes |-> <<>>]
    ELSE [changes       |-> LoopChanges(new_data_, current_data_, gameweek_, now_),
          price_changes |-> LoopPriceChanges(new_data_, current_data_, gameweek_, now_)]

\* -------------------------------------------------------------- state machine
Row == [id : Ids, now_cost : NowCosts, total_points : TotalPoints, form : Forms]

DistinctIds(rows) ==
    \A i, j \in 1..Len(rows) : rows[i].id = rows[j].id => i = j

\* snapshots of at most n rows; ids are primary keys of the API document and
\* of the players_current table
Snapshots(n) ==
    {rows \in UNION {[1..k -> Row] : k \in 0..n} : DistinctIds(rows)}

\* self.update_id = None
None == 0

\* an updater as __init__ leaves it, run_update not yet called
NewUpdater ==
    [pc |-> "init", update_id |-> None, new_data |-> <<>>, current_data |-> <<>>,
     changes |-> <<>>, price_changes |-> <<>>, stored_changes |-> 0,
     changes_stored |-> 0, players_updated |-> 0, error |-> "", ops |-> <<>>,
     at_start |-> <<>>]

\* os.getenv answers None for a variable that is not set
NoValue == "<None>"

\* a variable of the environment is not set, set to the empty string, or set
EnvValues == {NoValue, "", "value"}

Environs ==
    [SUPABASE_URL : EnvValues, SUPABASE_SERVICE_KEY : EnvValues, SUPABASE_KEY : EnvValues]

\* the truth value of a string or None: `not x` holds for None and for ''
Falsy(x) == x \in {NoValue, ""}

\* the value of `a or b`
PyOr(a, b) == IF Falsy(a) THEN b ELSE a

\* __main__ before its first statement: no updater object yet
NoUpdater ==
    [pc |-> "new", supabase_url |-> NoValue, supabase_key |-> NoValue,
     supabase |-> NoValue]

\* mutant: the constructor raises only when both credentials are missing
FPLDataUpdater_BothMissing ==
    /\ updater.pc = "new"
    /\ LET url == environ.SUPABASE_URL
           key == PyOr(environ.SUPABASE_SERVICE_KEY, environ.SUPABASE_KEY)
       IN  IF Falsy(url) /\ Falsy(key)
           THEN updater' = [pc |-> "ValueError", supabase_url |-> url,
                            supabase_key |-> key, supabase |-> NoValue]
           ELSE updater' = [pc |-> "ready", supabase_url |-> url,
                            supabase_key |-> key, supabase |-> "Client"]
    /\ UNCHANGED <<new_data, current_data, gameweek, now, returned, tables, run, environ>>

\* updater = FPLDataUpdater(): __init__ reads the credentials, raises
\* ValueError when the URL or the key is missing, and else creates the client
FPLDataUpdater ==
    /\ updater.pc = "new"
    /\ LET url == environ.SUPABASE_URL
           key == PyOr(environ.SUPABASE_SERVICE_KEY, environ.SUPABASE_KEY)
       IN  IF Falsy(url) \/ Falsy(key)
           THEN updater' = [pc |-> "ValueError", supabase_url |-> url,
                            supabase_key |-> key, supabase |-> NoValue]
           ELSE updater' = [pc |-> "ready", supabase_url |-> url,
                            supabase_key |-> key, supabase |-> "Client"]
    /\ UNCHANGED <<new_data, current_data, gameweek, now, returned, tables, run, environ>>

\* the updater is constructed from a complete environment
Constructed ==
    /\ environ = [SUPABASE_URL |-> "value", SUPABASE_SERVICE_KEY |-> "value",
                  SUPABASE_KEY |-> "value"]
    /\ updater = [pc |-> "ready", supabase_url |-> "value", supabase_key |-> "value",
                  supabase |-> "Client"]

\* no run takes place while detect_changes is exercised on its own
NoRuns ==
    /\ Constructed
    /\ players_current = <<>>
    /\ player_history = <<>>
    /\ price_changes = <<>>
    /\ data_updates = <<>>
    /\ run = [p \in Runs |-> NewUpdater]

Init ==
    /\ new_data \in Snapshots(MaxLen)
    /\ current_data \in Snapshots(MaxPrev)
    /\ gameweek \in Gameweeks
    /\ now = 0
    /\ returned = <<>>
    /\ NoRuns

\* a call detect_changes(new_data, current_data, gameweek) at an instant t of
\* a wall clock that never runs backwards
Call(t) ==
    /\ now' = t
    /\ returned' = Append(returned, detect_changes(new_data, current_data, gameweek, t))
    /\ UNCHANGED <<new_data, current_data, gameweek, tables, run, environ, updater>>

\* the first call
DetectChanges ==
    /\ returned = <<>>
    /\ \E t \in {now, now + 1} : Call(t)

\* a second call with the same arguments
DetectChangesAgain ==
    /\ Len(returned) = 1
    /\ \E t \in {now, now + 1} : Call(t)

Next == DetectChanges \/ DetectChangesAgain

Spec == Init /\ [][Next]_vars

called == Len(returned) >= 1
result == returned[Len(returned)]

TypeOK ==
    /\ Len(new_data) <= MaxLen /\ DistinctIds(new_data)
    /\ Len(current_data) <= MaxPrev /\ DistinctIds(current_data)
    /\ now \in Nat
    /\ Len(returned) <= 2

\* ------------------------------------------------------------- run_update
\* The backend is the hosted database behind the client library.  Each call
\* of it either takes effect as a whole and answers with the rows it wrote,
\* or fails and changes nothing.  The clock stands still during the runs:
\* no step of run_update reads a timestamp back.

\* the player rows the API document can hold; pd.DataFrame(players)['team']
\* raises on an empty list, so a fetched snapshot has at least one row
ApiRow == [id : Ids, now_cost : NowCosts, total_points : {10}, form : {3}]

\* the API document lists its players by ascending id
ApiSnapshots ==
    {rows \in UNION {[1..k -> ApiRow] : k \in 1..MaxLen} :
        \A i, j \in 1..Len(rows) : i < j => rows[i].id < rows[j].id}

\* the rows players_current can hold before the first run
StoredRow == [id : Ids, now_cost : {50}, total_points : {10}, form : {3}]

StoredSnapshots ==
    {rows \in UNION {[1..k -> StoredRow] : k \in 0..MaxPrev} : DistinctIds(rows)}

\* the error texts str(e) of the steps that can raise
FETCH_ERROR == "fetch_fpl_data"
HISTORY_ERROR == "insert player_history"
PRICE_ERROR == "insert price_changes"
UPSERT_ERROR == "upsert players_current"

\* players_data of update_current_data: one dict per row, null form as 0.0
PlayersData(new_data_) ==
    [i \in 1..Len(new_data_) |->
        [id           |-> new_data_[i].id,
         now_cost     |-> new_data_[i].now_cost,
         total_points |-> new_data_[i].total_points,
         form         |-> IF new_data_[i].form # NaN THEN new_data_[i].form ELSE 0]]

\* mutant: the write is an insert, not an upsert
UpsertRow_Insert(table, row) == Append(table, row)

\* table('players_current').upsert of one row: on conflict of id, update
UpsertRow(table, row) ==
    IF \E i \in 1..Len(table) : table[i].id = row.id
    THEN [i \in 1..Len(table) |-> IF table[i].id = row.id THEN row ELSE table[i]]
    ELSE Append(table, row)

RECURSIVE Upsert(_, _)
Upsert(table, rows) ==
    IF rows = <<>> THEN table
    ELSE Upsert(UpsertRow(table, Head(rows)), Tail(rows))

\* the row log_update_start inserts; id is the serial key of data_updates
AuditRow(id_) == [id |-> id_, status |-> "running", started_at |-> now]

\* mutant: the update is filtered by status 'running' instead of by id
UpdateAudit_AllRunning(table, update_id, status_, players_updated_, changes_detected_, error_message_) ==
    [i \in 1..Len(table) |->
        IF table[i].status = "running"
        THEN [id               |-> table[i].id,
              status           |-> status_,
              players_updated  |-> players_updated_,
              changes_detected |-> changes_detected_,
              error_message    |-> error_message_,
              started_at       |-> table[i].started_at,
              completed_at     |-> now]
        ELSE table[i]]

\* table('data_updates').update({...}).eq('id', update_id)
UpdateAudit(table, update_id, status_, players_updated_, changes_detected_, error_message_) ==
    [i \in 1..Len(table) |->
        IF table[i].id = update_id
        THEN [id               |-> table[i].id,
              status           |-> status_,
              players_updated  |-> players_updated_,
              changes_detected |-> changes_detected_,
              error_message    |-> error_message_,
              started_at       |-> table[i].started_at,
              completed_at     |-> now]
        ELSE table[i]]

\* run p moves on: its fields named in the record upd change, the rest stay
Set(p, upd) ==
    run' = [run EXCEPT ![p] =
               [f \in DOMAIN run[p] |-> IF f \in DOMAIN upd THEN upd[f] ELSE run[p][f]]]

\* the calls of the backend and of the API a run has made, with their outcome
Did(p, op_, ok_) == Append(run[p].ops, [op |-> op_, ok |-> ok_])

Finished(p) == run[p].pc \in {"returned", "raised"}

Frozen == UNCHANGED <<new_data, current_data, gameweek, now, returned, environ, updater>>

\* mutant: a failed insert of the 'running' row aborts the run
LogUpdateStart_Aborts(p) ==
    /\ run[p].pc = "init"
    /\ \A q \in Runs : q < p => run[q].pc # "init"
    /\ \/ /\ data_updates' = Append(data_updates, AuditRow(Len(data_updates) + 1))
          /\ Set(p, [pc |-> "fetch", update_id |-> Len(data_updates) + 1,
                     ops |-> Did(p, "insert data_updates", TRUE),
                     at_start |-> players_current])
       \/ /\ UNCHANGED data_updates
          /\ Set(p, [pc |-> "failed", error |-> "insert data_updates",
                     ops |-> Did(p, "insert data_updates", FALSE),
                     at_start |-> players_current])
    /\ UNCHANGED <<players_current, player_history, price_changes>>
    /\ Frozen

\* run_update is entered and calls log_update_start: the insert of the
\* 'running' row either answers with the new row or raises, which is logged
\* and leaves update_id unset
LogUpdateStart(p) ==
    /\ run[p].pc = "init"
    /\ \A q \in Runs : q < p => run[q].pc # "init"
    /\ \/ /\ data_updates' = Append(data_updates, AuditRow(Len(data_updates) + 1))
          /\ Set(p, [pc |-> "fetch", update_id |-> Len(data_updates) + 1,
                     ops |-> Did(p, "insert data_updates", TRUE),
                     at_start |-> players_current])
       \/ /\ UNCHANGED data_updates
          /\ Set(p, [pc |-> "fetch", ops |-> Did(p, "insert data_updates", FALSE),
                     at_start |-> players_current])
    /\ UNCHANGED <<players_current, player_history, price_changes>>
    /\ Frozen

\* mutant: a failed fetch is tried a second time
FetchFplData_Retry(p) ==
    /\ run[p].pc = "fetch"
    /\ \/ \E doc \in ApiSnapshots :
             Set(p, [pc |-> "read", new_data |-> doc, ops |-> Did(p, "get api", TRUE)])
       \/ IF run[p].ops # <<>> /\ run[p].ops[Len(run[p].ops)].op = "get api"
          THEN Set(p, [pc |-> "failed", error |-> FETCH_ERROR,
                       ops |-> Did(p, "get api", FALSE)])
          ELSE Set(p, [ops |-> Did(p, "get api", FALSE)])
    /\ UNCHANGED tables
    /\ Frozen

\* fetch_fpl_data: the API document of the moment, or the error re-raised
FetchFplData(p) ==
    /\ run[p].pc = "fetch"
    /\ \/ \E doc \in ApiSnapshots :
             Set(p, [pc |-> "read", new_data |-> doc, ops |-> Did(p, "get api", TRUE)])
       \/ Set(p, [pc |-> "failed", error |-> FETCH_ERROR, ops |-> Did(p, "get api", FALSE)])
    /\ UNCHANGED tables
    /\ Frozen

\* get_current_database_data: the rows of players_current, or an empty
\* DataFrame when the select raises
GetCurrentDatabaseData(p) ==
    /\ run[p].pc = "read"
    /\ \/ Set(p, [pc |-> "detect", current_data |-> players_current,
                  ops |-> Did(p, "select players_current", TRUE)])
       \/ Set(p, [pc |-> "detect", current_data |-> <<>>,
                  ops |-> Did(p, "select players_current", FALSE)])
    /\ UNCHANGED tables
    /\ Frozen

\* changes, price_changes = self.detect_changes(new_data, current_data, gameweek)
RunDetectChanges(p) ==
    /\ run[p].pc = "detect"
    /\ LET r == detect_changes(run[p].new_data, run[p].current_data, gameweek, now)
       IN  Set(p, [pc |-> "store", changes |-> r.changes,
                   price_changes |-> r.price_changes])
    /\ UNCHANGED tables
    /\ Frozen

\* mutant: the change log is replaced by the changes of the run
StoreChanges_Overwrite(p) ==
    /\ run[p].pc = "store"
    /\ IF run[p].changes # <<>>
       THEN \/ /\ player_history' = run[p].changes
               /\ Set(p, [pc |-> "store_prices",
                          stored_changes |-> Len(run[p].changes),
                          ops |-> Did(p, "insert player_history", TRUE)])
            \/ /\ UNCHANGED player_history
               /\ Set(p, [pc |-> "failed", error |-> HISTORY_ERROR,
                          ops |-> Did(p, "insert player_history", FALSE)])
       ELSE /\ UNCHANGED player_history
            /\ Set(p, [pc |-> "store_prices", stored_changes |-> 0])
    /\ UNCHANGED <<players_current, price_changes, data_updates>>
    /\ Frozen

\* store_changes, first half: the insert into player_history, made only for a
\* non-empty list; its failure is re-raised
StoreChanges(p) ==
    /\ run[p].pc = "store"
    /\ IF run[p].changes # <<>>
       THEN \/ /\ player_history' = player_history \o run[p].changes
               /\ Set(p, [pc |-> "store_prices",
                          stored_changes |-> Len(run[p].changes),
                          ops |-> Did(p, "insert player_history", TRUE)])
            \/ /\ UNCHANGED player_history
               /\ Set(p, [pc |-> "failed", error |-> HISTORY_ERROR,
                          ops |-> Did(p, "insert player_history", FALSE)])
       ELSE /\ UNCHANGED player_history
            /\ Set(p, [pc |-> "store_prices", stored_changes |-> 0])
    /\ UNCHANGED <<players_current, price_changes, data_updates>>
    /\ Frozen

\* mutant: store_changes returns the count of the last insert only
StorePriceChanges_LastCount(p) ==
    /\ run[p].pc = "store_prices"
    /\ IF run[p].price_changes # <<>>
       THEN \/ /\ price_changes' = price_changes \o run[p].price_changes
               /\ Set(p, [pc |-> "upsert",
                          changes_stored |-> Len(run[p].price_changes),
                          ops |-> Did(p, "insert price_changes", TRUE)])
            \/ /\ UNCHANGED price_changes
               /\ Set(p, [pc |-> "failed", error |-> PRICE_ERROR,
                          ops |-> Did(p, "insert price_changes", FALSE)])
       ELSE /\ UNCHANGED price_changes
            /\ Set(p, [pc |-> "upsert", changes_stored |-> run[p].stored_changes])
    /\ UNCHANGED <<players_current, player_history, data_updates>>
    /\ Frozen

\* store_changes, second half: the insert into price_changes, made only for
\* a non-empty list, then return stored_changes + stored_price_changes
StorePriceChanges(p) ==
    /\ run[p].pc = "store_prices"
    /\ IF run[p].price_changes # <<>>
       THEN \/ /\ price_changes' = price_changes \o run[p].price_changes
               /\ Set(p, [pc |-> "upsert",
                          changes_stored |-> run[p].stored_changes
                                             + Len(run[p].price_changes),
                          ops |-> Did(p, "insert price_changes", TRUE)])
            \/ /\ UNCHANGED price_changes
               /\ Set(p, [pc |-> "failed", error |-> PRICE_ERROR,
                          ops |-> Did(p, "insert price_changes", FALSE)])
       ELSE /\ UNCHANGED price_changes
            /\ Set(p, [pc |-> "upsert", changes_stored |-> run[p].stored_changes])
    /\ UNCHANGED <<players_current, player_history, data_updates>>
    /\ Frozen

\* mutant: the rows are upserted one by one, and a failure leaves the first
UpdateCurrentData_RowByRow(p) ==
    /\ run[p].pc = "upsert"
    /\ \/ /\ players_current' = Upsert(players_current, PlayersData(run[p].new_data))
          /\ Set(p, [pc |-> "succeeded",
                     players_updated |-> Len(PlayersData(run[p].new_data)),
                     ops |-> Did(p, "upsert players_current", TRUE)])
       \/ /\ players_current' =
                UpsertRow(players_current, Head(PlayersData(run[p].new_data)))
          /\ Set(p, [pc |-> "failed", error |-> UPSERT_ERROR,
                     ops |-> Did(p, "upsert players_current", FALSE)])
    /\ UNCHANGED <<player_history, price_changes, data_updates>>
    /\ Frozen

\* mutant: a failed upsert is logged and swallowed
UpdateCurrentData_Swallows(p) ==
    /\ run[p].pc = "upsert"
    /\ \/ /\ players_current' = Upsert(players_current, PlayersData(run[p].new_data))
          /\ Set(p, [pc |-> "succeeded",
                     players_updated |-> Len(PlayersData(run[p].new_data)),
                     ops |-> Did(p, "upsert players_current", TRUE)])
       \/ /\ UNCHANGED players_current
          /\ Set(p, [pc |-> "succeeded", players_updated |-> 0,
                     ops |-> Did(p, "upsert players_current", FALSE)])
    /\ UNCHANGED <<player_history, price_changes, data_updates>>
    /\ Frozen

\* mutant: the snapshot table is replaced by the fetched snapshot
UpdateCurrentData_Replace(p) ==
    /\ run[p].pc = "upsert"
    /\ \/ /\ players_current' = PlayersData(run[p].new_data)
          /\ Set(p, [pc |-> "succeeded",
                     players_updated |-> Len(PlayersData(run[p].new_data)),
                     ops |-> Did(p, "upsert players_current", TRUE)])
       \/ /\ UNCHANGED players_current
          /\ Set(p, [pc |-> "failed", error |-> UPSERT_ERROR,
                     ops |-> Did(p, "upsert players_current", FALSE)])
    /\ UNCHANGED <<player_history, price_changes, data_updates>>
    /\ Frozen

\* update_current_data: one upsert of every fetched row; its failure is
\* re-raised
UpdateCurrentData(p) ==
    /\ run[p].pc = "upsert"
    /\ \/ /\ players_current' = Upsert(players_current, PlayersData(run[p].new_data))
          /\ Set(p, [pc |-> "succeeded",
                     players_updated |-> Len(PlayersData(run[p].new_data)),
                     ops |-> Did(p, "upsert players_current", TRUE)])
       \/ /\ UNCHANGED players_current
          /\ Set(p, [pc |-> "failed", error |-> UPSERT_ERROR,
                     ops |-> Did(p, "upsert players_current", FALSE)])
    /\ UNCHANGED <<player_history, price_changes, data_updates>>
    /\ Frozen

\* mutant: a failed update of the audit row is re-raised
LogUpdateComplete_Propagates(p, status_, players_updated_, changes_detected_, error_message_, pc_) ==
    /\ IF run[p].update_id = None
       THEN /\ UNCHANGED data_updates
            /\ Set(p, [pc |-> pc_])
       ELSE \/ /\ data_updates' = UpdateAudit(data_updates, run[p].update_id, status_,
                                       players_updated_, changes_detected_, error_message_)
               /\ Set(p, [pc |-> pc_, ops |-> Did(p, "update data_updates", TRUE)])
            \/ /\ UNCHANGED data_updates
               /\ Set(p, [pc |-> "raised", error |-> "update data_updates",
                          ops |-> Did(p, "update data_updates", FALSE)])
    /\ UNCHANGED <<players_current, player_history, price_changes>>
    /\ Frozen

\* log_update_complete(status, players_updated, changes_detected,
\* error_message): nothing without an update_id; else one update of the row
\* with that id, whose failure is logged and swallowed
LogUpdateComplete(p, status_, players_updated_, changes_detected_, error_message_, pc_) ==
    /\ IF run[p].update_id = None
       THEN /\ UNCHANGED data_updates
            /\ Set(p, [pc |-> pc_])
       ELSE \/ /\ data_updates' = UpdateAudit(data_updates, run[p].update_id, status_,
                                       players_updated_, changes_detected_, error_message_)
               /\ Set(p, [pc |-> pc_, ops |-> Did(p, "update data_updates", TRUE)])
            \/ /\ UNCHANGED data_updates
               /\ Set(p, [pc |-> pc_, ops |-> Did(p, "update data_updates", FALSE)])
    /\ UNCHANGED <<players_current, player_history, price_changes>>
    /\ Frozen

\* mutant: the two counts are passed in the wrong order
LogSuccess_SwappedCounts(p) ==
    /\ run[p].pc = "succeeded"
    /\ LogUpdateComplete(p, "success", run[p].changes_stored, run[p].players_updated,
                         "", "returned")

\* the end of the try block: log success and return
LogSuccess(p) ==
    /\ run[p].pc = "succeeded"
    /\ LogUpdateComplete(p, "success", run[p].players_updated, run[p].changes_stored,
                         "", "returned")

\* mutant: the except block re-raises without logging the failure
LogFailure_NoLog(p) ==
    /\ run[p].pc = "failed"
    /\ Set(p, [pc |-> "raised"])
    /\ UNCHANGED tables
    /\ Frozen

\* mutant: the except block logs the failure without the error text
LogFailure_NoMessage(p) ==
    /\ run[p].pc = "failed"
    /\ LogUpdateComplete(p, "failed", 0, 0, "", "raised")

\* the except block: log the failure with str(e) and re-raise
LogFailure(p) ==
    /\ run[p].pc = "failed"
    /\ LogUpdateComplete(p, "failed", 0, 0, run[p].error, "raised")

RunStep(p) ==
    \/ FetchFplData(p)
    \/ GetCurrentDatabaseData(p)
    \/ RunDetectChanges(p)
    \/ StoreChanges(p)
    \/ StorePriceChanges(p)
    \/ UpdateCurrentData(p)
    \/ LogSuccess(p)
    \/ LogFailure(p)

\* the backend before the first run
InitBackend ==
    /\ new_data = <<>>
    /\ current_data = <<>>
    /\ returned = <<>>
    /\ gameweek \in Gameweeks
    /\ now = 0
    /\ players_current \in StoredSnapshots
    /\ player_history = <<>>
    /\ price_changes = <<>>
    /\ data_updates = <<>>
    /\ run = [p \in Runs |-> NewUpdater]

InitRuns == InitBackend /\ Constructed

\* the scheduler starts a run only when the run before it is over
StartRun(p) ==
    /\ \A q \in Runs : q < p => Finished(q)
    /\ LogUpdateStart(p)

NextRuns == \E p \in Runs : StartRun(p) \/ RunStep(p)

SpecRuns == InitRuns /\ [][NextRuns]_vars

\* nothing in the code keeps two runs apart
NextOverlap == \E p \in Runs : LogUpdateStart(p) \/ RunStep(p)

SpecOverlap == InitRuns /\ [][NextOverlap]_vars

\* __main__: one process in an environment of any kind
InitMain ==
    /\ InitBackend
    /\ environ \in Environs
    /\ updater = NoUpdater

\* updater.run_update(): a step of the run, made when the constructor did
\* not raise
RunUpdate ==
    /\ updater.pc = "ready"
    /\ LogUpdateStart(1) \/ RunStep(1)

NextMain == FPLDataUpdater \/ RunUpdate

SpecMain == InitMain /\ [][NextMain]_vars

\* ------------------------------------------------------------------ claims
IdsOf(rows) == {rows[i].id : i \in 1..Len(rows)}

\* the row of a snapshot that carries the id (ids are distinct)
RowOf(rows, id) == rows[CHOOSE i \in 1..Len(rows) : rows[i].id = id]

\* ids in both snapshots, and ids only in the new one
Both == IdsOf(new_data) \cap IdsOf(current_data)
OnlyNew == IdsOf(new_data) \ IdsOf(current_data)

\* change records of one kind the latest call returned for an id
ChangesOf(id, kind) ==
    SelectSeq(result.changes, LAMBDA c : c.player_id = id /\ c.change_type = kind)

AllChangesOf(id) == SelectSeq(result.changes, LAMBDA c : c.player_id = id)

PriceChangesOf(id) == SelectSeq(result.price_changes, LAMBDA c : c.player_id = id)

\* C1 (as stated): every entity of the new snapshot whose id is absent from
\* the previous snapshot, the previous snapshot being empty or not, gets
\* exactly one new_player change record and no price-change record.
C1_NewEntityAlways ==
    called => \A id \in OnlyNew :
        /\ Len(ChangesOf(id, "new_player")) = 1
        /\ Len(PriceChangesOf(id)) = 0

\* C1 (amended): when the previous snapshot is not empty, every entity of the
\* new snapshot whose id is absent from it gets exactly one new_player change
\* record and no price-change record.
C1_NewEntityNonEmptyPrev ==
    (called /\ current_data # <<>>) => \A id \in OnlyNew :
        /\ Len(ChangesOf(id, "new_player")) = 1
        /\ Len(PriceChangesOf(id)) = 0

C1_Witness ==
    /\ called
    /\ current_data # <<>>
    /\ \E id \in OnlyNew : ChangesOf(id, "new_player") # <<>>

\* C2: with an empty previous snapshot detect_changes returns an empty
\* change list and an empty price-change list, whatever the new snapshot is.
C2_EmptyPrevNoOutput ==
    (called /\ current_data = <<>>) =>
        /\ result.changes = <<>>
        /\ result.price_changes = <<>>

C2_Witness ==
    /\ called
    /\ current_data = <<>>
    /\ Len(new_data) = MaxLen
    /\ result.changes = <<>>

\* C3: an entity in both snapshots with identical price, cumulative score
\* and form gets no change record and no price-change record.
C3_IdenticalNoRecords ==
    called => \A id \in Both :
        LET old == RowOf(current_data, id)
            new == RowOf(new_data, id)
        IN  (old.now_cost = new.now_cost /\ old.total_points = new.total_points
                /\ old.form = new.form)
            => (AllChangesOf(id) = <<>> /\ PriceChangesOf(id) = <<>>)

C3_Witness ==
    /\ called
    /\ \E id \in Both :
          /\ RowOf(current_data, id) = RowOf(new_data, id)
          /\ AllChangesOf(id) = <<>>
          /\ result.changes # <<>>

\* C4: an entity in both snapshots whose price differs gets exactly one
\* price_change change record carrying the new minor-unit price and exactly
\* one price-change record with old_price = old/10, new_price = new/10 and
\* price_change = (new - old)/10, positive iff the price rose (old 50, new
\* 55 gives 5.0, 5.5 and 0.5); with equal prices it gets neither.
C4_PriceChange ==
    called => \A id \in Both :
        LET old == RowOf(current_data, id).now_cost
            new == RowOf(new_data, id).now_cost
            hist == ChangesOf(id, "price_change")
            pcs == PriceChangesOf(id)
        IN  IF old # new
            THEN /\ Len(hist) = 1
                 /\ hist[1].now_cost = new
                 /\ Len(pcs) = 1
                 /\ pcs[1].old_price = Div10(old)
                 /\ pcs[1].new_price = Div10(new)
                 /\ pcs[1].price_change = Div10(new - old)
                 /\ FloatLT(Div10(0), pcs[1].price_change) <=> new > old
                 /\ (old = 50 /\ new = 55) =>
                        /\ pcs[1].old_price = [t |-> 50, e |-> 0]
                        /\ pcs[1].new_price = [t |-> 55, e |-> 0]
                        /\ pcs[1].price_change = [t |-> 5, e |-> 0]
            ELSE hist = <<>> /\ pcs = <<>>

C4_Witness ==
    /\ called
    /\ \E id \in Both :
          /\ RowOf(current_data, id).now_cost = 50
          /\ RowOf(new_data, id).now_cost = 55
          /\ Len(PriceChangesOf(id)) = 1
          /\ PriceChangesOf(id)[1].price_change = [t |-> 5, e |-> 0]

\* C5: an entity in both snapshots gets one points_update change record,
\* carrying the new cumulative score, if and only if its old score differs
\* from the new one, whatever happened to its price and form.
C5_PointsUpdate ==
    called => \A id \in Both :
        LET old == RowOf(current_data, id).total_points
            new == RowOf(new_data, id).total_points
            ups == ChangesOf(id, "points_update")
        IN  IF old # new
            THEN Len(ups) = 1 /\ ups[1].total_points = new
            ELSE ups = <<>>

C5_Witness ==
    /\ called
    /\ \E id \in Both :
          /\ RowOf(current_data, id).total_points # RowOf(new_data, id).total_points
          /\ RowOf(current_data, id).now_cost # RowOf(new_data, id).now_cost
          /\ Len(ChangesOf(id, "points_update")) = 1
          /\ Len(ChangesOf(id, "price_change")) = 1

\* a form in tenths, null counting as 0.0
Tenths(form) == IF form = NaN THEN 0 ELSE form

\* C6: an entity in both snapshots gets a form_change record if and only if
\* its form moved by more than 0.1 (null counting as 0.0); a move of exactly
\* 0.1 or less never produces a record.
C6_FormChangeIffAboveThreshold ==
    called => \A id \in Both :
        LET old == Tenths(RowOf(current_data, id).form)
            new == Tenths(RowOf(new_data, id).form)
        IN  (ChangesOf(id, "form_change") # <<>>) <=> (Abs(old - new) > 1)

\* a return value without its timestamp fields
StripChange(c) == [k \in (DOMAIN c) \ {"recorded_at"} |-> c[k]]
StripPriceChange(c) == [k \in (DOMAIN c) \ {"change_date"} |-> c[k]]
StripTime(r) ==
    [changes       |-> [i \in 1..Len(r.changes) |-> StripChange(r.changes[i])],
     price_changes |-> [i \in 1..Len(r.price_changes) |->
                           StripPriceChange(r.price_changes[i])]]

PosInNew(id) == CHOOSE i \in 1..Len(new_data) : new_data[i].id = id

KindRank(kind) ==
    CASE kind = "price_change" -> 1
      [] kind = "points_update" -> 2
      [] kind = "form_change" -> 3
      [] OTHER -> 0

\* C8: change records come in the order of their entities in the new
\* snapshot, and within one entity in the order price_change, points_update,
\* form_change.
C8_Ordering ==
    called => \A p, q \in 1..Len(result.changes) :
        LET a == result.changes[p]
            b == result.changes[q]
        IN  p < q =>
              /\ PosInNew(a.player_id) <= PosInNew(b.player_id)
              /\ a.player_id = b.player_id =>
                    KindRank(a.change_type) < KindRank(b.change_type)

C8_Witness ==
    /\ called
    /\ Len(new_data) = 2
    /\ Len(AllChangesOf(new_data[1].id)) = 1
    /\ Len(AllChangesOf(new_data[2].id)) = 3

Kinds == {"new_player", "price_change", "points_update", "form_change"}

\* C9 (as stated): an id contributes at most one change record of each kind
\* and at most one price-change record; an entity in both snapshots at most
\* three change records plus one price-change record; a new entity exactly
\* one change record and nothing else.
C9_PerEntityCounts ==
    called =>
        /\ \A id \in Ids :
              /\ \A kind \in Kinds : Len(ChangesOf(id, kind)) <= 1
              /\ Len(PriceChangesOf(id)) <= 1
        /\ \A id \in Both : Len(AllChangesOf(id)) <= 3
        /\ \A id \in OnlyNew :
              /\ Len(AllChangesOf(id)) = 1
              /\ PriceChangesOf(id) = <<>>

\* C9 (amended): as stated, except that a new entity contributes exactly one
\* change record when the previous snapshot is not empty and none when it
\* is empty.
C9_PerEntityCountsAmended ==
    called =>
        /\ \A id \in Ids :
              /\ \A kind \in Kinds : Len(ChangesOf(id, kind)) <= 1
              /\ Len(PriceChangesOf(id)) <= 1
        /\ \A id \in Both : Len(AllChangesOf(id)) <= 3
        /\ \A id \in OnlyNew :
              /\ Len(AllChangesOf(id)) = (IF current_data = <<>> THEN 0 ELSE 1)
              /\ PriceChangesOf(id) = <<>>

C9_Witness ==
    /\ called
    /\ \E id \in Both : Len(AllChangesOf(id)) = 3 /\ Len(PriceChangesOf(id)) = 1
    /\ \E id \in OnlyNew : Len(AllChangesOf(id)) = 1

\* C10: no change record and no price-change record carries a player_id that
\* is absent from the new snapshot; entities only in the previous snapshot
\* are not examined.
C10_OnlyNewSnapshotIds ==
    called =>
        /\ \A i \in 1..Len(result.changes) :
              result.changes[i].player_id \in IdsOf(new_data)
        /\ \A i \in 1..Len(result.price_changes) :
              result.price_changes[i].player_id \in IdsOf(new_data)

C10_Witness ==
    /\ called
    /\ IdsOf(current_data) \ IdsOf(new_data) # {}
    /\ result.changes # <<>>
    /\ \A id \in IdsOf(current_data) \ IdsOf(new_data) : AllChangesOf(id) = <<>>

\* --------------------------------------------------------- claims on the runs
Tried(p, op_) == \E i \in 1..Len(run[p].ops) : run[p].ops[i].op = op_

Ok(p, op_) == \E i \in 1..Len(run[p].ops) : run[p].ops[i] = [op |-> op_, ok |-> TRUE]

Failed(p, op_) == \E i \in 1..Len(run[p].ops) : run[p].ops[i] = [op |-> op_, ok |-> FALSE]

Times(p, op_) == Cardinality({i \in 1..Len(run[p].ops) : run[p].ops[i].op = op_})

\* the audit row a run got its update_id from
AuditOf(p) ==
    data_updates[CHOOSE i \in 1..Len(data_updates) : data_updates[i].id = run[p].update_id]

HasAudit(p) == run[p].update_id # None

DataWrites == {"insert player_history", "insert price_changes", "upsert players_current"}

\* C11 (as stated): every run has an audit record, created 'running' at run
\* start, and by the time run_update returns or raises exactly one terminal
\* transition has been applied to it, so that it is never left 'running'.
C11_AlwaysLoggedTerminal ==
    \A p \in Runs :
        /\ run[p].pc # "init" => HasAudit(p)
        /\ Finished(p) => (HasAudit(p) /\ AuditOf(p).status \in {"success", "failed"})

\* C11 (amended): a run whose audit-start write succeeded has its audit
\* record 'running' until the run is over and makes exactly one completion
\* write; when that write succeeds the record is 'success' if run_update
\* returned and 'failed' if it raised, and when it fails the record is left
\* 'running'.  A run whose audit-start write failed has no audit record.
C11_AuditStateMachine ==
    \A p \in Runs :
        /\ run[p].pc # "init" => (HasAudit(p) <=> Ok(p, "insert data_updates"))
        /\ HasAudit(p) =>
              /\ Times(p, "update data_updates") = (IF Finished(p) THEN 1 ELSE 0)
              /\ AuditOf(p).status =
                    (IF ~Ok(p, "update data_updates") THEN "running"
                     ELSE IF run[p].pc = "returned" THEN "success" ELSE "failed")

C11_Witness ==
    \E p, q \in Runs :
        /\ run[p].pc = "returned" /\ HasAudit(p) /\ AuditOf(p).status = "success"
        /\ run[q].pc = "raised" /\ HasAudit(q) /\ AuditOf(q).status = "failed"

\* C12 (as stated): a run whose fetch step raises ends with an audit record
\* of status 'failed' and a non-empty error field, has written nothing to
\* the change-log, price-change and snapshot tables, and raises.
C12_FetchFailureLogged ==
    \A p \in Runs : (Finished(p) /\ Failed(p, "get api")) =>
        /\ run[p].pc = "raised"
        /\ \A w \in DataWrites : ~Tried(p, w)
        /\ HasAudit(p)
        /\ AuditOf(p).status = "failed"
        /\ AuditOf(p).error_message # ""

\* C12 (amended): a run whose fetch step raises has written nothing to the
\* change-log, price-change and snapshot tables, and raises; its audit
\* record has status 'failed' and a non-empty error field when both the
\* audit-start and the audit-completion write succeeded.
C12_FetchFailure ==
    \A p \in Runs : (Finished(p) /\ Failed(p, "get api")) =>
        /\ run[p].pc = "raised"
        /\ \A w \in DataWrites : ~Tried(p, w)
        /\ (HasAudit(p) /\ Ok(p, "update data_updates")) =>
              /\ AuditOf(p).status = "failed"
              /\ AuditOf(p).error_message # ""

C12_Witness ==
    \E p \in Runs :
        /\ run[p].pc = "raised" /\ Failed(p, "get api")
        /\ HasAudit(p) /\ AuditOf(p).status = "failed"
        /\ AuditOf(p).error_message = FETCH_ERROR

\* the run is over and its outcome is the one of its fetch and data writes
OutcomeOfDataSteps(p) ==
    /\ run[p].pc = "returned" =>
          Ok(p, "get api") /\ Ok(p, "upsert players_current")
    /\ run[p].pc = "raised" =>
          Failed(p, "get api") \/ \E w \in DataWrites : Failed(p, w)

\* C13: a failed audit-start write does not abort the run: it goes on
\* through fetch, diff and the data writes without an audit id, and at its
\* end no write to the audit table is attempted.
C13_StartFailureNotFatal ==
    \A p \in Runs : Failed(p, "insert data_updates") =>
        /\ run[p].update_id = None
        /\ ~Tried(p, "update data_updates")
        /\ Finished(p) => OutcomeOfDataSteps(p)

C13_Witness ==
    \E p \in Runs :
        /\ Failed(p, "insert data_updates")
        /\ run[p].pc = "returned"
        /\ Ok(p, "insert player_history")
        /\ Ok(p, "insert price_changes")
        /\ Ok(p, "upsert players_current")

\* store_changes has returned to run_update
StoreReturned(p) == run[p].pc = "upsert" \/ Tried(p, "upsert players_current")

\* C14: store_changes inserts into the change-log table only for a
\* non-empty change list and into the price-change table only for a
\* non-empty price-change list, returns the sum of the two inserted counts,
\* and re-raises a backend failure.
C14_StoreChanges ==
    \A p \in Runs :
        /\ Tried(p, "insert player_history") => run[p].changes # <<>>
        /\ Tried(p, "insert price_changes") => run[p].price_changes # <<>>
        /\ StoreReturned(p) =>
              /\ run[p].changes # <<>> => Ok(p, "insert player_history")
              /\ run[p].price_changes # <<>> => Ok(p, "insert price_changes")
              /\ run[p].changes_stored =
                    Len(run[p].changes) + Len(run[p].price_changes)
        /\ Failed(p, "insert player_history") =>
              /\ run[p].pc \in {"failed", "raised"}
              /\ run[p].error = HISTORY_ERROR
              /\ ~Tried(p, "insert price_changes")
              /\ ~Tried(p, "upsert players_current")
        /\ Failed(p, "insert price_changes") =>
              /\ run[p].pc \in {"failed", "raised"}
              /\ run[p].error = PRICE_ERROR
              /\ ~Tried(p, "upsert players_current")

C14_Witness ==
    \E p, q \in Runs :
        /\ StoreReturned(p)
        /\ run[p].changes # <<>> /\ run[p].price_changes = <<>>
        /\ ~Tried(p, "insert price_changes")
        /\ Ok(p, "insert player_history") /\ Failed(q, "insert price_changes")
        /\ run[q].pc = "raised"

\* no later run has started
Latest(p) == \A q \in Runs : q > p => run[q].pc = "init"

EndsWith(seq, tail) ==
    /\ Len(tail) <= Len(seq)
    /\ SubSeq(seq, Len(seq) - Len(tail) + 1, Len(seq)) = tail

\* the run inserted its records and its snapshot upsert failed: the records
\* are in their tables, the snapshot table is as before the run, the run raised
InsertedButNotUpserted(p) ==
    /\ run[p].pc = "raised"
    /\ EndsWith(player_history, run[p].changes)
    /\ EndsWith(price_changes, run[p].price_changes)
    /\ players_current = run[p].at_start

\* C15 (as stated): when the change insertion succeeds and the snapshot
\* upsert fails, the run ends with its change and price-change records in
\* their tables, the snapshot table unchanged, the audit record (if any)
\* 'failed', and run_update raising.
C15_UpsertFailureLogged ==
    \A p \in Runs : (Finished(p) /\ Latest(p) /\ Failed(p, "upsert players_current")) =>
        /\ InsertedButNotUpserted(p)
        /\ HasAudit(p) => AuditOf(p).status = "failed"

\* C15 (amended): as stated, except that the audit record (if any) is
\* 'failed' when the audit-completion write succeeds and is left 'running'
\* when that write fails.
C15_UpsertFailure ==
    \A p \in Runs : (Finished(p) /\ Latest(p) /\ Failed(p, "upsert players_current")) =>
        /\ InsertedButNotUpserted(p)
        /\ HasAudit(p) =>
              AuditOf(p).status =
                  (IF Ok(p, "update data_updates") THEN "failed" ELSE "running")

C15_Witness ==
    \E p \in Runs :
        /\ Finished(p) /\ Latest(p) /\ Failed(p, "upsert players_current")
        /\ run[p].changes # <<>> /\ run[p].price_changes # <<>>
        /\ player_history # <<>> /\ price_changes # <<>>
        /\ HasAudit(p) /\ AuditOf(p).status = "failed"

\* C16: every error raised in a fetch, diff or persist step, a failed read of
\* the persisted snapshot included, reaches the handler of run_update, which
\* records 'failed' with the error text and re-raises; no such run goes on
\* to finish as 'success'.
C16_AllErrorsReachHandler ==
    \A p \in Runs :
        (Finished(p) /\ \E op_ \in {"get api", "select players_current"} \cup DataWrites :
                            Failed(p, op_)) =>
            /\ run[p].pc = "raised"
            /\ (HasAudit(p) /\ Ok(p, "update data_updates")) =>
                  /\ AuditOf(p).status = "failed"
                  /\ AuditOf(p).error_message # ""

\* the text of the error of the step that failed
OriginalError(p) ==
    CASE Failed(p, "get api") -> FETCH_ERROR
      [] Failed(p, "insert player_history") -> HISTORY_ERROR
      [] Failed(p, "insert price_changes") -> PRICE_ERROR
      [] Failed(p, "upsert players_current") -> UPSERT_ERROR
      [] OTHER -> ""

\* C17: a failed audit-completion write is swallowed: after a successful
\* fetch, diff and data writes run_update returns normally and the data
\* writes stay; on the failure path the error re-raised is the original one.
C17_CompletionFailureSwallowed ==
    \A p \in Runs : Failed(p, "update data_updates") =>
        /\ Finished(p)
        /\ AuditOf(p).status = "running"
        /\ Ok(p, "upsert players_current") =>
              /\ run[p].pc = "returned"
              /\ Latest(p) =>
                    /\ players_current =
                          Upsert(run[p].at_start, PlayersData(run[p].new_data))
                    /\ EndsWith(player_history, run[p].changes)
                    /\ EndsWith(price_changes, run[p].price_changes)
        /\ ~Ok(p, "upsert players_current") =>
              /\ run[p].pc = "raised"
              /\ run[p].error = OriginalError(p)
              /\ run[p].error # ""

C17_Witness ==
    \E p, q \in Runs :
        /\ Failed(p, "update data_updates") /\ Failed(q, "update data_updates")
        /\ run[p].pc = "returned" /\ run[p].changes # <<>>
        /\ run[q].pc = "raised"

\* C18: after any sequence of runs, successful or failed, the snapshot table
\* holds at most one row per player id.
C18_OneRowPerId == DistinctIds(players_current)

C18_Witness ==
    /\ Ok(1, "upsert players_current") /\ Ok(2, "upsert players_current")
    /\ IdsOf(run[1].new_data) \cap IdsOf(run[2].new_data) # {}
    /\ IdsOf(run[1].new_data) # IdsOf(run[2].new_data)
    /\ IdsOf(run[1].at_start) \cap IdsOf(run[1].new_data) # {}

IsPrefix(s, t) == Len(s) <= Len(t) /\ SubSeq(t, 1, Len(s)) = s

\* C19: the change-log and price-change tables only grow: every step leaves
\* the records already in them in place and unmodified.
C19_AppendOnly ==
    [][/\ IsPrefix(player_history, player_history')
       /\ IsPrefix(price_changes, price_changes')]_vars

C19_Witness ==
    /\ Ok(1, "insert player_history") /\ Ok(2, "insert player_history")
    /\ Ok(1, "insert price_changes") /\ Ok(2, "insert price_changes")
    /\ Len(player_history) = Len(run[1].changes) + Len(run[2].changes)
    /\ Len(price_changes) = Len(run[1].price_changes) + Len(run[2].price_changes)

\* one audit row for each start write that succeeded and no other, each
\* under its own id
OneAuditRowPerStart ==
    /\ \A p, q \in Runs :
          (HasAudit(p) /\ HasAudit(q) /\ p # q) => run[p].update_id # run[q].update_id
    /\ \A p \in Runs :
          Ok(p, "insert data_updates") =>
              Cardinality({i \in 1..Len(data_updates) :
                              data_updates[i].id = run[p].update_id}) = 1
    /\ Len(data_updates) = Cardinality({p \in Runs : Ok(p, "insert data_updates")})

\* a step changes an audit row only as the completion write of the run that
\* got the id of that row from its own start write
OnlyOwnAuditRowChanged ==
    \A i \in 1..Len(data_updates) :
        data_updates'[i] # data_updates[i] =>
            \E p \in Runs :
                /\ run[p].update_id = data_updates[i].id
                /\ run[p].pc \in {"succeeded", "failed"}
                /\ run'[p].pc \in {"returned", "raised"}
                /\ \A q \in Runs \ {p} : run'[q] = run[q]

\* C20: each run owns one audit record: the audit ids of two runs differ,
\* the table holds one row for each start write that succeeded and no other,
\* and a step changes an audit row only when it is the completion write of
\* the run that got the id of that row from its own start write, also when
\* the runs overlap.
C20_OwnAuditRecordOnly == []OneAuditRowPerStart /\ [][OnlyOwnAuditRowChanged]_vars

\* the second run is over and logged while the first is still under way
C20_Witness ==
    /\ HasAudit(1) /\ HasAudit(2)
    /\ run[1].pc \in {"read", "detect", "store", "store_prices", "upsert"}
    /\ Finished(2) /\ Ok(2, "update data_updates")
    /\ AuditOf(1).status = "running"
    /\ AuditOf(2).status \in {"success", "failed"}

\* the external operations of a run
Operations ==
    {"insert data_updates", "get api", "select players_current",
     "update data_updates"} \cup DataWrites

\* C21: no step is retried: a run attempts each external operation at most
\* once, and after the first failure of the fetch or of a data write it makes
\* no further call but the audit-completion update and raises.
C21_NoRetry ==
    \A p \in Runs :
        /\ \A op_ \in Operations : Times(p, op_) <= 1
        /\ \A i \in 1..Len(run[p].ops) :
              (~run[p].ops[i].ok /\ run[p].ops[i].op \in {"get api"} \cup DataWrites) =>
                  /\ run[p].pc \in {"failed", "raised"}
                  /\ \A j \in (i + 1)..Len(run[p].ops) :
                        run[p].ops[j].op = "update data_updates"

C21_Witness ==
    \E p, q \in Runs :
        /\ run[p].pc = "returned"
        /\ \A op_ \in Operations : Times(p, op_) = 1
        /\ run[q].pc = "raised"
        /\ run[q].ops = <<[op |-> "insert data_updates", ok |-> TRUE],
                         [op |-> "get api", ok |-> FALSE],
                         [op |-> "update data_updates", ok |-> TRUE]>>

\* the URL or the key is missing from the environment: not set, or empty
CredentialsMissing ==
    \/ Falsy(environ.SUPABASE_URL)
    \/ Falsy(environ.SUPABASE_SERVICE_KEY) /\ Falsy(environ.SUPABASE_KEY)

\* C22: with the backend URL or the backend key missing from the
\* environment, the constructor raises ValueError before the client is
\* created; run_update is not entered, no call of the API or of the backend
\* is made and no audit record exists.
C22_ConfigError ==
    (updater.pc # "new" /\ CredentialsMissing) =>
        /\ updater.pc = "ValueError"
        /\ updater.supabase = NoValue
        /\ run = [p \in Runs |-> NewUpdater]
        /\ data_updates = <<>>
        /\ player_history = <<>>
        /\ price_changes = <<>>

C22_Witness ==
    /\ updater.pc = "ValueError"
    /\ environ.SUPABASE_URL = "value"
    /\ environ.SUPABASE_SERVICE_KEY = NoValue
    /\ environ.SUPABASE_KEY = ""
    /\ data_updates = <<>>

\* the place of an operation in run_update
StepRank(op_) ==
    CASE op_ = "insert data_updates" -> 1
      [] op_ = "get api" -> 2
      [] op_ = "select players_current" -> 3
      [] op_ = "insert player_history" -> 4
      [] op_ = "insert price_changes" -> 5
      [] op_ = "upsert players_current" -> 6
      [] op_ = "update data_updates" -> 7

\* the calls of a run are made in the order of run_update, data writes only
\* after a successful fetch, the upsert only after the inserts went through
InStepOrder(p) ==
    /\ \A i, j \in 1..Len(run[p].ops) :
          i < j => StepRank(run[p].ops[i].op) < StepRank(run[p].ops[j].op)
    /\ \A w \in DataWrites : Tried(p, w) => Ok(p, "get api")
    /\ Tried(p, "upsert players_current") =>
          /\ ~Failed(p, "insert player_history") /\ ~Failed(p, "insert price_changes")
          /\ run[p].changes # <<>> => Ok(p, "insert player_history")
          /\ run[p].price_changes # <<>> => Ok(p, "insert price_changes")

\* C23: within one run the steps occur in the order audit-start, fetch, read
\* of the previous snapshot, diff, insert of the changes, upsert of the
\* snapshot, audit-completion; the diff always compares against the snapshot
\* table as it was before the run wrote anything; no data write is attempted
\* unless the fetch succeeded; the upsert is attempted only after the change
\* insertion returned without raising.
C23_StepOrder ==
    \A p \in Runs :
        /\ InStepOrder(p)
        /\ Tried(p, "select players_current") => run[p].current_data = run[p].at_start

Terminal == {"success", "failed"}

\* an audit record is 'success' only when store_changes and
\* update_current_data of its run returned: every detected list was inserted
\* and the upsert went through
SuccessOnlyAfterWrites ==
    \A p \in Runs : (HasAudit(p) /\ AuditOf(p).status = "success") =>
        /\ \A w \in DataWrites : ~Failed(p, w)
        /\ run[p].changes # <<>> => Ok(p, "insert player_history")
        /\ run[p].price_changes # <<>> => Ok(p, "insert price_changes")
        /\ Ok(p, "upsert players_current")
        /\ run[p].pc = "returned"

\* no step writes an audit record that is 'success' or 'failed'
TerminalNotRewritten ==
    \A i \in 1..Len(data_updates) :
        data_updates[i].status \in Terminal => data_updates'[i] = data_updates[i]

\* C24: an audit record has status 'success' only if, in its run, both
\* store_changes and update_current_data returned without raising; and an
\* audit record that has reached 'success' or 'failed' is never written
\* again.
C24_SuccessOnlyAfterWrites == []SuccessOnlyAfterWrites /\ [][TerminalNotRewritten]_vars

C24_Witness ==
    \E p, q \in Runs :
        /\ HasAudit(p) /\ AuditOf(p).status = "success"
        /\ run[p].changes # <<>> /\ run[p].price_changes # <<>>
        /\ HasAudit(q) /\ AuditOf(q).status = "failed"
        /\ Finished(q) /\ Failed(q, "upsert players_current")

\* the price_change records among the change records of a run for an id
PriceLogged(p, id) ==
    /\ Ok(p, "insert player_history")
    /\ \E i \in 1..Len(run[p].changes) :
          /\ run[p].changes[i].player_id = id
          /\ run[p].changes[i].change_type = "price_change"

\* both runs fetched the id at the same price
SamePriceFetched(p, q, id) ==
    /\ id \in IdsOf(run[p].new_data) \cap IdsOf(run[q].new_data)
    /\ RowOf(run[p].new_data, id).now_cost = RowOf(run[q].new_data, id).now_cost

\* C25: in a sequence of serialized runs, runs that fail part-way included,
\* a price transition of an entity is appended to the change log at most
\* once: when a run has logged the move of an id to a price and the next run
\* fetches the id at that same price, the next run logs no price change for
\* the id.
C25_LoggedAtMostOnce ==
    \A p, q \in Runs, id \in Ids :
        (p < q /\ PriceLogged(p, id) /\ SamePriceFetched(p, q, id)) => ~PriceLogged(q, id)

\* ids the snapshot table held at the start of the run and the run did not fetch
Removed(p) == IdsOf(run[p].at_start) \ IdsOf(run[p].new_data)

\* C26: after a successful run the snapshot table holds, for every fetched
\* id, one row with the fetched values, and every row it held for an id that
\* was not fetched is still there, unchanged; a failed run that did not reach
\* the upsert leaves the snapshot table as it was.
C26_SnapshotAfterRun ==
    \A p \in Runs : Latest(p) =>
        /\ run[p].pc = "returned" =>
              /\ IdsOf(players_current) = IdsOf(run[p].new_data) \cup IdsOf(run[p].at_start)
              /\ \A id \in IdsOf(run[p].new_data) :
                    RowOf(players_current, id) = RowOf(PlayersData(run[p].new_data), id)
              /\ \A id \in Removed(p) :
                    RowOf(players_current, id) = RowOf(run[p].at_start, id)
        /\ (run[p].pc = "raised" /\ ~Tried(p, "upsert players_current")) =>
              players_current = run[p].at_start

C26_Witness ==
    \E p \in Runs :
        /\ Latest(p) /\ run[p].pc = "returned"
        /\ Removed(p) # {}
        /\ \E id \in IdsOf(run[p].new_data) \cap IdsOf(run[p].at_start) :
              RowOf(players_current, id) # RowOf(run[p].at_start, id)

\* C27: a 'success' audit record carries players_updated = the number of
\* upserted rows and changes_detected = the number of inserted change
\* records plus inserted price-change records; a 'failed' audit record
\* carries 0 and 0 and the error text, also when change records were
\* inserted before the failure.
C27_AuditCounts ==
    \A p \in Runs : HasAudit(p) =>
        /\ AuditOf(p).status = "success" =>
              /\ AuditOf(p).players_updated = Len(run[p].new_data)
              /\ AuditOf(p).changes_detected =
                    Len(run[p].changes) + Len(run[p].price_changes)
              /\ Ok(p, "upsert players_current")
              /\ run[p].changes # <<>> => Ok(p, "insert player_history")
              /\ run[p].price_changes # <<>> => Ok(p, "insert price_changes")
        /\ AuditOf(p).status = "failed" =>
              /\ AuditOf(p).players_updated = 0
              /\ AuditOf(p).changes_detected = 0
              /\ AuditOf(p).error_message = run[p].error
              /\ AuditOf(p).error_message # ""

C27_Witness ==
    \E p, q \in Runs :
        /\ HasAudit(p) /\ AuditOf(p).status = "success"
        /\ AuditOf(p).players_updated = 1 /\ AuditOf(p).changes_detected = 2
        /\ HasAudit(q) /\ AuditOf(q).status = "failed"
        /\ Ok(q, "insert player_history") /\ Ok(q, "insert price_changes")
        /\ AuditOf(q).changes_detected = 0

====
